---- MODULE Spec2Model ----
(***************************************************************************)
(* Model of packages/biomarker-service/biomarker_service.py:               *)
(* AudioBuffer, RiskAssessment.update_patient_model and the                *)
(* BiomarkerService message loop (handle_client / process_audio_message)   *)
(* running as coroutines of one asyncio event loop.                        *)
(*                                                                         *)
(* Numbers: a decoded sample is kept as its integer numerator over 32768;  *)
(* a risk or raw anomaly score is kept in tenths (5 is 0.5, 10 is 1.0).    *)
(* Clock readings (start_time, the default timestamp) are not modelled.    *)
(***************************************************************************)
EXTENDS Integers, Sequences, FiniteSets, TLC

(* ------------------------------ bounds -------------------------------- *)
\* AudioBuffer.buffer_size: int(sample_rate * buffer_duration), 24000 in the
\* source; scaled down so that a window fills within a few chunks.
buffer_size == 3
\* RiskAssessment.min_samples, 10 in the source, scaled down.
min_samples == 2
\* max_history of update_patient_model, 100 in the source, scaled down.
max_history == 2
\* Number of audio chunks the clients send that pass validation.
MaxMsgs == 3
\* Number of inbound messages that are dropped by validation.
MaxDropped == 1
\* Number of internal faults (feature backend, scaler, forest) that occur.
MaxFaults == 1
\* Longest byte sequence handed to decode_mulaw on its own.
MaxBytes == 3

Conns == {"c1", "c2"}
Sids == {"a", "b"}
None == "none"

\* Encoded payloads a client may send (after base64 decoding): empty, one
\* byte, a whole window and one byte more than a whole window.
Pattern == [i \in 1..(buffer_size + 1) |-> <<255, 0, 127, 128>>[1 + (i % 4)]]
Payloads == {SubSeq(Pattern, 1, k) : k \in {0, 1, buffer_size, buffer_size + 1}}
\* Raw anomaly scores the isolation forest's decision_function may return.
RawScores == {-15, -5, 2, 5, 15}
\* Where the scaler / forest calls of update_patient_model may raise.
FaultPoints == {"none", "scale", "fit", "score"}
\* Which path of extract_basic_features produced the vector.
FeaturePaths == {"normal", "zero"}

VARIABLES
  audio_buffers,    \* BiomarkerService.audio_buffers: sid -> AudioBuffer
  active_sessions,  \* BiomarkerService.active_sessions: sid -> session dict
  feature_history,  \* RiskAssessment.feature_history: sid -> list of vectors
  scalers,          \* RiskAssessment.scalers: sid -> data last fitted on
  models,           \* RiskAssessment.models: sid -> data last fitted on
  pc,               \* position of each connection's handle_client coroutine
  running,          \* the coroutine that holds the event loop, or None
  loc,              \* locals of each handler's process_audio_message call
  outbox,           \* per connection and session id: how many risk events
                    \* the handler has passed to websocket.send
  nmsgs,            \* number of audio chunks accepted so far
  ndropped,         \* number of inbound messages dropped so far
  nfaults,          \* number of internal faults so far
  accepted,         \* history: samples accepted per session id
  ready_count,      \* history: times add_frame returned True per session id
  appended,         \* history: every vector appended per session id
  statuses,         \* history: the status returned for each window, per id
  fed,              \* history: session ids each connection has fed
  win_end,          \* history: arrival index of the last sample of the
                    \* latest window handed to the feature backend, per id
  dec               \* a call of decode_mulaw on its own: the bytes handed in,
                    \* the latest and the first result, the number of calls

vars == <<audio_buffers, active_sessions, feature_history, scalers, models,
          pc, running, loc, outbox, nmsgs, ndropped, nfaults, accepted,
          ready_count, appended, statuses, fed, win_end, dec>>

svc == <<audio_buffers, active_sessions, feature_history, scalers, models>>
hist == <<accepted, ready_count, appended, statuses, fed, win_end>>
env == <<nmsgs, ndropped, nfaults>>

(* ------------------------------ helpers ------------------------------- *)
Max2(a, b) == IF a >= b THEN a ELSE b
Min2(a, b) == IF a <= b THEN a ELSE b

\* d[k] = v on a dict, adding the key when absent.
Put(d, k, v) == [x \in (DOMAIN d) \cup {k} |-> IF x = k THEN v ELSE d[x]]

\* The last n elements of s (s[-n:]).
LastN(s, n) == IF Len(s) <= n THEN s ELSE SubSeq(s, Len(s) - n + 1, Len(s))

NoLoc == [sid |-> "", audio_data |-> <<>>, segment |-> <<>>,
          features |-> <<>>, risk |-> 0, status |-> "", raw |-> 0,
          fault |-> "none"]

(* ------------------------------ decoder ------------------------------- *)
Pow2(n) == IF n = 0 THEN 1 ELSE IF n = 1 THEN 2 ELSE IF n = 2 THEN 4
           ELSE IF n = 3 THEN 8 ELSE IF n = 4 THEN 16 ELSE IF n = 5 THEN 32
           ELSE 64

\* decode_byte, had the magnitude been shifted by exponent, not exponent - 1.
decode_byte_shift(byte) ==
  LET b == 255 - byte
      sign == (b \div 128) % 2
      exponent == (b % 128) \div 16
      mantissa == b % 16
      decoded_val == ((mantissa * 2) + 132) * Pow2(exponent)
  IN IF sign # 0 THEN 0 - decoded_val ELSE decoded_val

\* One byte of decode_mulaw: the numerator of the sample over 32768.
decode_byte(byte) ==
  LET b == 255 - byte                 \* byte ^ 0xFF
      sign == (b \div 128) % 2        \* byte & 0x80
      exponent == (b % 128) \div 16   \* (byte & 0x70) >> 4
      mantissa == b % 16              \* byte & 0x0F
      decoded_val == IF exponent = 0
                     THEN (mantissa * 2) + 132
                     ELSE ((mantissa * 2) + 132) * Pow2(exponent - 1)
  IN IF sign # 0 THEN 0 - decoded_val ELSE decoded_val

\* decode_mulaw, had each sample been put at the front of the list.
decode_mulaw_reversed(encoded_data) ==
  [i \in 1..Len(encoded_data) |->
     decode_byte(encoded_data[Len(encoded_data) + 1 - i])]

decode_mulaw(encoded_data) ==
  [i \in 1..Len(encoded_data) |-> decode_byte(encoded_data[i])]

(* ---------------------------- AudioBuffer ----------------------------- *)
NewAudioBuffer == [buffer |-> <<>>, frame_count |-> 0]

\* deque(maxlen=buffer_size).extend: the oldest items fall off the front.
DequeExtend(buffer, items) == LastN(buffer \o items, buffer_size)

add_frame(buf, audio_data) ==
  [buffer |-> DequeExtend(buf.buffer, audio_data),
   frame_count |-> buf.frame_count + Len(audio_data)]

\* The value add_frame returns, on the buffer it has just extended.
buffer_full(buf) == Len(buf.buffer) >= buffer_size

get_buffer(buf) == buf.buffer

\* clear, had it reset the counter and left the deque as it was.
clear_keeps_buffer(buf) == [buffer |-> buf.buffer, frame_count |-> 0]

clear(buf) == [buffer |-> <<>>, frame_count |-> 0]

(* -------------------------- FeatureExtractor -------------------------- *)
\* extract_basic_features: the backend's numbers are opaque, so the named map
\* is kept as the order its keys were inserted in and one value standing for
\* the window it was computed from (the arrival index of its first sample).
\* path "zero" is the _get_zero_features return, every value 0.0.
extract_basic_features(audio, path) ==
  IF Len(audio) = 0 \/ path = "zero"
  THEN [keys |-> "zero_order", val |-> 0]
  ELSE [keys |-> "extract_order", val |-> audio[1][1]]

\* Feature names, as <<group, index, statistic>>.
MfccKeys ==
  [j \in 1..26 |->
     <<"mfcc", (j - 1) \div 2, IF j % 2 = 1 THEN "mean" ELSE "std">>]

F0Keys == <<<<"f0", 0, "mean">>, <<"f0", 0, "std">>, <<"f0", 0, "range">>>>

SpectralKeys ==
  <<<<"spectral_centroid", 0, "mean">>, <<"spectral_centroid", 0, "std">>,
    <<"spectral_rolloff", 0, "mean">>, <<"zcr", 0, "mean">>,
    <<"zcr", 0, "std">>>>

EnergyKeys ==
  <<<<"rms", 0, "mean">>, <<"rms", 0, "std">>,
    <<"log_energy", 0, "mean">>, <<"log_energy", 0, "std">>>>

\* Insertion order of the map built by extract_basic_features (lines 80-156;
\* a group's except branch fills the same keys in the same order).
ExtractOrder == F0Keys \o SpectralKeys \o MfccKeys \o EnergyKeys

\* Insertion order of the map built by _get_zero_features (lines 164-175).
ZeroOrder == F0Keys \o SpectralKeys \o EnergyKeys \o MfccKeys

\* The feature each position of list(features.values()) comes from.
KeysOf(features) ==
  IF features.keys = "zero_order" THEN ZeroOrder ELSE ExtractOrder

(* --------------------------- RiskAssessment --------------------------- *)
\* feature_history is a defaultdict(list): a missing key reads as [].
HistoryOf(fh, patient_id) ==
  IF patient_id \in DOMAIN fh THEN fh[patient_id] ELSE <<>>

\* list(features.values())
feature_vector(features) == features.val

\* TrimHistory, had the slice been [:max_history].
TrimHistoryFront(h) ==
  IF Len(h) > max_history THEN SubSeq(h, 1, max_history) ELSE h

\* self.feature_history[patient_id][-max_history:] when over max_history
TrimHistory(h) == IF Len(h) > max_history THEN LastN(h, max_history) ELSE h

\* risk_score, had the lower clamp been left out.
risk_score_no_floor(anomaly_score) == Min2(10, 5 - anomaly_score)

\* max(0.0, min(1.0, (0.5 - anomaly_score) / 1.0)), in tenths
risk_score(anomaly_score) == Max2(0, Min2(10, 5 - anomaly_score))

\* Outcome, had the warm-up test been n_samples <= min_samples.
OutcomeLateWarmup(n_samples, fault, anomaly_score) ==
  IF n_samples <= min_samples THEN [risk |-> 0, status |-> "warming_up"]
  ELSE IF fault # "none" THEN [risk |-> 0, status |-> "error"]
  ELSE [risk |-> risk_score(anomaly_score), status |-> "ok"]

\* Outcome, had a scaler left unfitted by an earlier fault made every later
\* window fail.
OutcomeSticky(n_samples, fault, anomaly_score) ==
  IF n_samples < min_samples THEN [risk |-> 0, status |-> "warming_up"]
  ELSE IF fault # "none" \/ (\E p \in DOMAIN scalers : scalers[p] = <<>>)
  THEN [risk |-> 0, status |-> "error"]
  ELSE [risk |-> risk_score(anomaly_score), status |-> "ok"]

\* The (risk, status) pair update_patient_model returns.
Outcome(n_samples, fault, anomaly_score) ==
  IF n_samples < min_samples THEN [risk |-> 0, status |-> "warming_up"]
  ELSE IF fault # "none" THEN [risk |-> 0, status |-> "error"]
  ELSE [risk |-> risk_score(anomaly_score), status |-> "ok"]

\* update_patient_model, had one history list been shared by all patients.
update_patient_model_shared(patient_id, features, fault, anomaly_score) ==
  LET h == TrimHistory(Append(HistoryOf(feature_history, patient_id),
                              feature_vector(features)))
      n_samples == Len(h)
      X == h
      out == Outcome(n_samples, fault, anomaly_score)
  IN [fh |-> [p \in (DOMAIN feature_history) \cup {patient_id} |-> h],
      sc |-> IF n_samples < min_samples THEN scalers
             ELSE IF fault = "scale" THEN Put(scalers, patient_id, <<>>)
             ELSE Put(scalers, patient_id, X),
      md |-> IF n_samples < min_samples \/ fault = "scale" THEN models
             ELSE IF fault = "fit" THEN Put(models, patient_id, <<>>)
             ELSE Put(models, patient_id, X),
      risk |-> out.risk,
      status |-> out.status]

\* update_patient_model, had the vector been appended only after the model
\* calls succeeded.
update_patient_model_append_last(patient_id, features, fault, anomaly_score) ==
  LET h == TrimHistory(Append(HistoryOf(feature_history, patient_id),
                              feature_vector(features)))
      n_samples == Len(h)
      X == h
      out == Outcome(n_samples, fault, anomaly_score)
      failed == n_samples >= min_samples /\ fault # "none"
  IN [fh |-> IF failed
             THEN Put(feature_history, patient_id,
                      HistoryOf(feature_history, patient_id))
             ELSE Put(feature_history, patient_id, h),
      sc |-> IF n_samples < min_samples THEN scalers
             ELSE IF fault = "scale" THEN Put(scalers, patient_id, <<>>)
             ELSE Put(scalers, patient_id, X),
      md |-> IF n_samples < min_samples \/ fault = "scale" THEN models
             ELSE IF fault = "fit" THEN Put(models, patient_id, <<>>)
             ELSE Put(models, patient_id, X),
      risk |-> out.risk,
      status |-> out.status]

\* update_patient_model: the new feature_history, scalers and models and the
\* returned pair.  A fitted scaler or forest is kept as the matrix it was
\* last fitted on, <<>> when it exists but is not fitted.
update_patient_model(patient_id, features, fault, anomaly_score) ==
  LET h == TrimHistory(Append(HistoryOf(feature_history, patient_id),
                              feature_vector(features)))
      n_samples == Len(h)
      X == h
      out == Outcome(n_samples, fault, anomaly_score)
  IN [fh |-> Put(feature_history, patient_id, h),
      sc |-> IF n_samples < min_samples THEN scalers
             ELSE IF fault = "scale" THEN Put(scalers, patient_id, <<>>)
             ELSE Put(scalers, patient_id, X),
      md |-> IF n_samples < min_samples \/ fault = "scale" THEN models
             ELSE IF fault = "fit" THEN Put(models, patient_id, <<>>)
             ELSE Put(models, patient_id, X),
      risk |-> out.risk,
      status |-> out.status]

(* -------------------------- BiomarkerService -------------------------- *)
Msg(json, type, chainRunId, audio, b64ok) ==
  [json |-> json, type |-> type, chainRunId |-> chainRunId, audio |-> audio,
   b64ok |-> b64ok]

\* Inbound messages: well-formed audio chunks, and one malformed message for
\* each early return.
Messages ==
  {Msg(TRUE, "audio", s, a, TRUE) : s \in Sids, a \in Payloads}
  \cup {Msg(FALSE, "audio", "a", Pattern, TRUE),
        Msg(TRUE, "other", "a", Pattern, TRUE),
        Msg(TRUE, "audio", "", Pattern, TRUE),
        Msg(TRUE, "audio", "a", Pattern, FALSE)}

\* The early returns of handle_client / process_audio_message (lines 374,
\* 291-313): the message is dropped before any session state is touched.
Dropped(m) ==
  \/ ~m.json
  \/ m.type # "audio"
  \/ m.chainRunId = ""
  \/ m.audio = <<>>
  \/ ~m.b64ok
  \/ Len(decode_mulaw(m.audio)) = 0

NewSession == [frame_count |-> 0, last_risk |-> 0]

\* The dict process_audio_message returns for a completed window.
Response(chain_run_id, risk, status, fh) ==
  [type |-> "risk", risk |-> risk, status |-> status,
   n |-> Len(HistoryOf(fh, chain_run_id)), chainRunId |-> chain_run_id]

\* The response a handler at "send" is about to pass to websocket.send.
Pending(c) ==
  Response(loc[c].sid, loc[c].risk, loc[c].status, feature_history)

\* CanAccept, had the handlers run as threads of their own.
CanAcceptThreaded(c) == pc[c] = "recv"

\* A handler waiting in "async for message in websocket" resumes only when
\* the event loop is free: process_audio_message has no await in its body, so
\* a handler that has taken a message keeps the loop until websocket.send.
CanAccept(c) == pc[c] = "recv" /\ running = None

\* No call of decode_mulaw on its own.
NoDec == [encoded |-> <<>>, decoded |-> <<>>, first |-> <<>>, calls |-> 0]

\* The service as constructed, before any connection.
ServiceInit ==
  /\ audio_buffers = <<>>
  /\ active_sessions = <<>>
  /\ feature_history = <<>>
  /\ scalers = <<>>
  /\ models = <<>>
  /\ pc = [c \in Conns |-> "recv"]
  /\ running = None
  /\ loc = [c \in Conns |-> NoLoc]
  /\ outbox = [c \in Conns |-> [s \in Sids |-> 0]]
  /\ nmsgs = 0
  /\ ndropped = 0
  /\ nfaults = 0
  /\ accepted = [s \in Sids |-> 0]
  /\ ready_count = [s \in Sids |-> 0]
  /\ appended = [s \in Sids |-> <<>>]
  /\ statuses = [s \in Sids |-> <<>>]
  /\ fed = [c \in Conns |-> {}]
  /\ win_end = [s \in Sids |-> 0]

Init == ServiceInit /\ dec = NoDec

\* Receive, had the session entry been created before the payload checks.
ReceiveCreatesFirst(c) ==
  /\ CanAccept(c)
  /\ \E m \in Messages :
       /\ IF Dropped(m)
          THEN /\ ndropped < MaxDropped
               /\ ndropped' = ndropped + 1
               /\ IF m.json /\ m.type = "audio" /\ m.chainRunId # ""
                     /\ m.chainRunId \notin DOMAIN audio_buffers
                  THEN /\ audio_buffers' =
                            Put(audio_buffers, m.chainRunId, NewAudioBuffer)
                       /\ active_sessions' =
                            Put(active_sessions, m.chainRunId, NewSession)
                  ELSE UNCHANGED <<audio_buffers, active_sessions>>
               /\ UNCHANGED <<pc, running, loc, nmsgs>>
          ELSE /\ nmsgs < MaxMsgs
               /\ nmsgs' = nmsgs + 1
               /\ UNCHANGED <<ndropped, audio_buffers, active_sessions>>
               /\ pc' = [pc EXCEPT ![c] = "buffer"]
               /\ running' = c
               /\ loc' = [loc EXCEPT ![c] =
                            [NoLoc EXCEPT !.sid = m.chainRunId,
                                          !.audio_data = decode_mulaw(m.audio)]]
  /\ UNCHANGED <<feature_history, scalers, models, outbox, nfaults, hist, dec>>

\* handle_client lines 372-377 and process_audio_message lines 291-313.
Receive(c) ==
  /\ CanAccept(c)
  /\ \E m \in Messages :
       /\ IF Dropped(m)
          THEN /\ ndropped < MaxDropped
               /\ ndropped' = ndropped + 1
               /\ UNCHANGED <<pc, running, loc, nmsgs>>
          ELSE /\ nmsgs < MaxMsgs
               /\ nmsgs' = nmsgs + 1
               /\ UNCHANGED ndropped
               /\ pc' = [pc EXCEPT ![c] = "buffer"]
               /\ running' = c
               /\ loc' = [loc EXCEPT ![c] =
                            [NoLoc EXCEPT !.sid = m.chainRunId,
                                          !.audio_data = decode_mulaw(m.audio)]]
  /\ UNCHANGED <<svc, outbox, nfaults, hist, dec>>

\* process_audio_message lines 315-332 (and the return None of line 360).
AddFrame(c) ==
  /\ pc[c] = "buffer"
  /\ LET sid == loc[c].sid
         data == loc[c].audio_data
         tagged == [i \in 1..Len(data) |-> <<accepted[sid] + i, data[i]>>]
         bufs == IF sid \in DOMAIN audio_buffers THEN audio_buffers
                 ELSE Put(audio_buffers, sid, NewAudioBuffer)
         sess == IF sid \in DOMAIN audio_buffers THEN active_sessions
                 ELSE Put(active_sessions, sid, NewSession)
         buf == add_frame(bufs[sid], tagged)
     IN /\ audio_buffers' = Put(bufs, sid, buf)
        /\ active_sessions' =
             Put(sess, sid, [sess[sid] EXCEPT !.frame_count = @ + Len(data)])
        /\ accepted' = [accepted EXCEPT ![sid] = @ + Len(data)]
        /\ fed' = [fed EXCEPT ![c] = @ \cup {sid}]
        /\ IF buffer_full(buf)
           THEN /\ pc' = [pc EXCEPT ![c] = "extract"]
                /\ ready_count' = [ready_count EXCEPT ![sid] = @ + 1]
                /\ UNCHANGED <<running, loc>>
           ELSE /\ pc' = [pc EXCEPT ![c] = "recv"]
                /\ running' = None
                /\ loc' = [loc EXCEPT ![c] = NoLoc]
                /\ UNCHANGED ready_count
  /\ UNCHANGED <<feature_history, scalers, models, outbox, env, appended,
                 statuses, win_end, dec>>

\* process_audio_message lines 333-336.
Extract(c) ==
  /\ pc[c] = "extract"
  /\ \E path \in FeaturePaths :
       LET segment == get_buffer(audio_buffers[loc[c].sid])
       IN /\ (path # "normal" => nfaults < MaxFaults)
          /\ nfaults' = IF path # "normal" THEN nfaults + 1 ELSE nfaults
          /\ loc' = [loc EXCEPT ![c].segment = segment,
                                ![c].features =
                                  extract_basic_features(segment, path)]
          /\ win_end' = [win_end EXCEPT ![loc[c].sid] =
                           IF segment = <<>> THEN @
                           ELSE segment[Len(segment)][1]]
  /\ pc' = [pc EXCEPT ![c] = "score"]
  /\ UNCHANGED <<svc, running, outbox, nmsgs, ndropped, accepted,
                 ready_count, appended, statuses, fed, dec>>

\* process_audio_message lines 339-341: the call of update_patient_model.
UpdateModel(c) ==
  /\ pc[c] = "score"
  /\ \E fault \in FaultPoints, raw \in RawScores :
       LET sid == loc[c].sid
           r == update_patient_model(sid, loc[c].features, fault, raw)
           scored == r.status # "warming_up"
       IN /\ (~scored => (fault = "none" /\ raw = 5))
          /\ (fault # "none" => (raw = 5 /\ nfaults < MaxFaults))
          /\ nfaults' = IF fault # "none" THEN nfaults + 1 ELSE nfaults
          /\ feature_history' = r.fh
          /\ scalers' = r.sc
          /\ models' = r.md
          /\ loc' = [loc EXCEPT ![c].risk = r.risk, ![c].status = r.status,
                                ![c].raw = raw, ![c].fault = fault]
          /\ appended' = [appended EXCEPT ![sid] =
                            Append(@, feature_vector(loc[c].features))]
          /\ statuses' = [statuses EXCEPT ![sid] = Append(@, r.status)]
  /\ pc' = [pc EXCEPT ![c] = "clear"]
  /\ UNCHANGED <<audio_buffers, active_sessions, running, outbox, nmsgs,
                 ndropped, accepted, ready_count, fed, win_end, dec>>

\* Finish, had clearing the buffer also reset the session's frame_count.
FinishResetsSession(c) ==
  /\ pc[c] = "clear"
  /\ LET sid == loc[c].sid
     IN /\ active_sessions' =
             [active_sessions EXCEPT ![sid].last_risk = loc[c].risk,
                                     ![sid].frame_count = 0]
        /\ audio_buffers' = [audio_buffers EXCEPT ![sid] = clear(@)]
  /\ pc' = [pc EXCEPT ![c] = "send"]
  /\ UNCHANGED <<feature_history, scalers, models, running, loc, outbox,
                 env, hist, dec>>

\* process_audio_message lines 343-358.
Finish(c) ==
  /\ pc[c] = "clear"
  /\ LET sid == loc[c].sid
     IN /\ active_sessions' =
             [active_sessions EXCEPT ![sid].last_risk = loc[c].risk]
        /\ audio_buffers' = [audio_buffers EXCEPT ![sid] = clear(@)]
  /\ pc' = [pc EXCEPT ![c] = "send"]
  /\ UNCHANGED <<feature_history, scalers, models, running, loc, outbox,
                 env, hist, dec>>

\* Send, had process_audio_message also written the response to the
\* websocket it is handed.
SendAlsoInProcess(c) ==
  /\ pc[c] = "send"
  /\ outbox' = [outbox EXCEPT ![c][Pending(c).chainRunId] = @ + 2]
  /\ pc' = [pc EXCEPT ![c] = "recv"]
  /\ running' = None
  /\ loc' = [loc EXCEPT ![c] = NoLoc]
  /\ UNCHANGED <<svc, env, hist, dec>>

\* Send, had the event gone to every connection that fed the session.
SendToAllFeeders(c) ==
  /\ pc[c] = "send"
  /\ outbox' = [d \in Conns |->
                  IF d = c \/ loc[c].sid \in fed[d]
                  THEN [outbox[d] EXCEPT ![loc[c].sid] = @ + 1]
                  ELSE outbox[d]]
  /\ pc' = [pc EXCEPT ![c] = "recv"]
  /\ running' = None
  /\ loc' = [loc EXCEPT ![c] = NoLoc]
  /\ UNCHANGED <<svc, env, hist, dec>>

\* handle_client lines 380-381: the response goes to websocket.send, where
\* the handler gives the event loop back.
Send(c) ==
  /\ pc[c] = "send"
  /\ outbox' = [outbox EXCEPT ![c][Pending(c).chainRunId] = @ + 1]
  /\ pc' = [pc EXCEPT ![c] = "recv"]
  /\ running' = None
  /\ loc' = [loc EXCEPT ![c] = NoLoc]
  /\ UNCHANGED <<svc, env, hist, dec>>

\* handle_client lines 388-395: the connection ends; the finally block logs
\* and touches no service state.
Close(c) ==
  /\ CanAccept(c)
  /\ pc' = [pc EXCEPT ![c] = "done"]
  /\ UNCHANGED <<svc, running, loc, outbox, env, hist, dec>>

Next ==
  \E c \in Conns :
    \/ Receive(c)
    \/ AddFrame(c)
    \/ Extract(c)
    \/ UpdateModel(c)
    \/ Finish(c)
    \/ Send(c)
    \/ Close(c)

Spec == Init /\ [][Next]_vars

(* ------------------------ decode_mulaw on its own --------------------- *)
ByteSamples == {0, 127, 128, 255}

\* Byte sequences handed to decode_mulaw: the empty one, every single byte,
\* and the longer sequences over a few byte values.
DecodeInputs ==
  {<<>>} \cup {<<b>> : b \in 0..255}
  \cup UNION {[1..n -> ByteSamples] : n \in 2..MaxBytes}

InitDecode ==
  /\ ServiceInit
  /\ dec \in {[NoDec EXCEPT !.encoded = e] : e \in DecodeInputs}

\* decode_mulaw(encoded), called a first and a second time on the same bytes.
Decode ==
  /\ dec.calls < 2
  /\ dec' = [dec EXCEPT !.decoded = decode_mulaw(dec.encoded),
                        !.first = IF dec.calls = 0
                                  THEN decode_mulaw(dec.encoded) ELSE @,
                        !.calls = @ + 1]
  /\ UNCHANGED <<svc, pc, running, loc, outbox, env, hist>>

NextDecode == Decode

SpecDecode == InitDecode /\ [][NextDecode]_vars

Processing == {"buffer", "extract", "score", "clear", "send"}

TypeOK ==
  /\ DOMAIN audio_buffers \subseteq Sids
  /\ DOMAIN active_sessions = DOMAIN audio_buffers
  /\ running \in Conns \cup {None}
  /\ \A c \in Conns : pc[c] \in Processing \cup {"recv", "done"}

(* ------------------------------ claims -------------------------------- *)
RECURSIVE SumOver(_, _)
SumOver(S, f) ==
  IF S = {} THEN 0
  ELSE LET x == CHOOSE y \in S : TRUE IN f[x] + SumOver(S \ {x}, f)

\* Risk events for session id s passed to websocket.send, on any connection.
EventsFor(s) == SumOver(Conns, [c \in Conns |-> outbox[c][s]])

\* Handlers between a True return of add_frame for s and their send.
InFlight(s) ==
  Cardinality({c \in Conns :
                 pc[c] \in {"extract", "score", "clear", "send"}
                 /\ loc[c].sid = s})

\* The key's entry in a dict, <<>> when the key is absent.
Entry(d, k) == IF k \in DOMAIN d THEN <<d[k]>> ELSE <<>>

\* Everything the service holds under session id s.
SessState(s) ==
  <<Entry(audio_buffers, s), Entry(active_sessions, s),
    Entry(feature_history, s), Entry(scalers, s), Entry(models, s)>>

\* C1: each True return of add_frame leads to exactly one risk event for
\* that session id, a partial window to none: the events sent for a session
\* plus the windows still being processed equal the windows completed, and
\* a send step adds exactly one event, for the session of the message that
\* completed the window.
C1_OneEventPerWindow ==
  [][/\ \A s \in Sids : EventsFor(s)' + InFlight(s)' = ready_count'[s]
     /\ \A c \in Conns : \A s \in Sids :
          outbox'[c][s] # outbox[c][s] =>
            /\ outbox'[c][s] = outbox[c][s] + 1
            /\ pc[c] = "send" /\ loc[c].sid = s
            /\ ready_count[s] >= 1]_vars

\* C1 witness: two events have been sent for a session whose buffer now
\* holds a partial window, with no handler running.
C1_Witness ==
  \E s \in DOMAIN audio_buffers :
    /\ EventsFor(s) = 2
    /\ Len(audio_buffers[s].buffer) \in 1..(buffer_size - 1)
    /\ running = None

\* C2 (as claimed): after N accepted samples a session has produced exactly
\* floor(N / C) windows, and never a window early.
C2_WindowPerC ==
  \A s \in Sids :
    /\ ready_count[s] = accepted[s] \div buffer_size
    /\ ready_count[s] * buffer_size <= accepted[s]

\* C3: the history of a session is the last min(k, M) of the k vectors
\* appended to it, in the order appended, and never longer than M.
C3_HistoryRetention ==
  \A s \in DOMAIN feature_history :
    LET h == feature_history[s]
        k == Len(appended[s])
    IN /\ Len(h) <= max_history
       /\ Len(h) = Min2(k, max_history)
       /\ \A i \in 1..Len(h) : h[i] = appended[s][k - Len(h) + i]

\* C3 witness: more than M vectors were appended and the oldest is gone.
C3_Witness ==
  \E s \in DOMAIN feature_history :
    /\ Len(appended[s]) > max_history
    /\ feature_history[s][1] # appended[s][1]

\* C4: a window's status is "warming_up" exactly when the history length
\* after the append is below min_samples; a warming-up window has risk 0.0
\* and leaves the scalers and models untouched; the record sent says the same.
C4_WarmingUp ==
  [][\A c \in Conns :
       /\ (pc[c] = "score" /\ pc'[c] = "clear") =>
            LET n == Len(HistoryOf(feature_history', loc[c].sid))
            IN /\ (loc'[c].status = "warming_up") <=> (n < min_samples)
               /\ loc'[c].status = "warming_up" =>
                    /\ loc'[c].risk = 0
                    /\ scalers' = scalers /\ models' = models
       /\ (pc[c] = "send" /\ pc'[c] = "recv") =>
            /\ (Pending(c).status = "warming_up")
                 <=> (Pending(c).n < min_samples)
            /\ Pending(c).status = "warming_up" => Pending(c).risk = 0]_vars

\* C4 witness: a warming-up record is about to be sent for the last window
\* before min_samples.
C4_Witness ==
  \E c \in Conns :
    /\ pc[c] = "send"
    /\ Pending(c).status = "warming_up"
    /\ Pending(c).n = min_samples - 1

\* The clamp of 0.5 - raw to [0, 1], in tenths.
Clamp01(x) == IF x < 0 THEN 0 ELSE IF x > 10 THEN 10 ELSE x

\* C5: every returned risk lies in [0, 1]; it is clamp(0.5 - raw, 0, 1) when
\* the status is "ok" (raw 0.5 and raw 1.5 give 0.0, raw -0.5 gives 1.0) and
\* 0.0 when the status is "warming_up" or "error".
C5_RiskRange ==
  /\ \A c \in Conns : pc[c] \in {"clear", "send"} =>
       /\ loc[c].risk \in 0..10
       /\ Pending(c).risk = loc[c].risk
       /\ loc[c].status = "ok" => loc[c].risk = Clamp01(5 - loc[c].raw)
       /\ (loc[c].status = "ok" /\ loc[c].raw \in {5, 15}) => loc[c].risk = 0
       /\ (loc[c].status = "ok" /\ loc[c].raw = -5) => loc[c].risk = 10
       /\ loc[c].status \in {"warming_up", "error"} => loc[c].risk = 0
  /\ \A s \in DOMAIN active_sessions : active_sessions[s].last_risk \in 0..10

\* C5 witness: an "ok" record whose raw score 1.5 was clamped to risk 0.0.
C5_Witness ==
  \E c \in Conns :
    pc[c] = "send" /\ loc[c].status = "ok" /\ loc[c].raw = 15
    /\ Pending(c).risk = 0

\* C6: with the history at min_samples or more, a window is "error" with
\* risk 0.0 exactly when its own model call faulted and "ok" exactly when it
\* did not, whatever earlier windows left behind; the faulted window's
\* handler goes on to clear and send, and the session keeps its entries.
C6_ErrorNotSticky ==
  [][\A c \in Conns :
       (pc[c] = "score" /\ pc'[c] = "clear") =>
         LET sid == loc[c].sid
             n == Len(HistoryOf(feature_history', sid))
         IN /\ (loc'[c].status = "error")
                 <=> (n >= min_samples /\ loc'[c].fault # "none")
            /\ (loc'[c].status = "ok")
                 <=> (n >= min_samples /\ loc'[c].fault = "none")
            /\ loc'[c].status = "error" =>
                 /\ loc'[c].risk = 0
                 /\ sid \in DOMAIN audio_buffers'
                 /\ sid \in DOMAIN active_sessions'
                 /\ sid \in DOMAIN feature_history'
                 /\ running' = c]_vars

\* C6 witness: a session whose window k was "error" and window k+1 "ok".
C6_Witness ==
  \E s \in Sids : \E k \in 1..Len(statuses[s]) :
    /\ k + 1 <= Len(statuses[s])
    /\ statuses[s][k] = "error"
    /\ statuses[s][k + 1] = "ok"

\* C7: a step changes what the service holds under a session id only when
\* it is a step of the handler processing a message that carries that id;
\* a dropped message and a close change nothing held under any id.
C7_SessionIsolation ==
  [][\A b \in Sids :
       SessState(b)' # SessState(b) =>
         \E c \in Conns :
           /\ running = c
           /\ pc[c] \in {"buffer", "score", "clear"}
           /\ loc[c].sid = b]_vars

\* C7 witness: a handler has just run the model of one session on a
\* faulting window while the other session holds a partial window.
C7_Witness ==
  \E c \in Conns : \E b \in Sids :
    /\ pc[c] = "clear" /\ loc[c].sid # b /\ loc[c].status = "error"
    /\ b \in DOMAIN audio_buffers /\ audio_buffers[b].buffer # <<>>

\* C8: no two handlers are inside the add / extract / append / refit / clear
\* sequence at once, in particular not for the same session id.
C8_OneStepPerSession ==
  \A c, d \in Conns :
    (c # d /\ pc[c] \in Processing /\ pc[d] \in Processing) =>
      loc[c].sid # loc[d].sid

\* C8 witness: a handler is processing a window of a session id that the
\* other connection has fed too, while that connection is still open.
C8_Witness ==
  \E c, d \in Conns :
    /\ c # d /\ pc[c] = "score" /\ pc[d] = "recv"
    /\ loc[c].sid \in fed[d]

\* C9 (as claimed): while one handler extracts and scores a window, a message
\* for another connection's handler can still be taken.
C9_NonBlocking ==
  \A c, d \in Conns :
    (c # d /\ pc[c] \in {"extract", "score"} /\ pc[d] = "recv") =>
      CanAccept(d)

\* C10 (as claimed): once a connection is closed, nothing is held any more
\* under the session ids it fed.
C10_ReleasedOnClose ==
  \A c \in Conns : pc[c] = "done" =>
    \A s \in fed[c] :
      /\ s \notin DOMAIN audio_buffers
      /\ s \notin DOMAIN active_sessions
      /\ s \notin DOMAIN feature_history
      /\ s \notin DOMAIN scalers
      /\ s \notin DOMAIN models

RECURSIVE TwoTo(_)
TwoTo(k) == IF k = 0 THEN 1 ELSE 2 * TwoTo(k - 1)

\* Bit k of byte x after all its bits are inverted.
InvBit(x, k) == 1 - ((x \div TwoTo(k)) % 2)

\* The decoding of one byte, bit by bit: sign is bit 7, exponent bits 6-4,
\* mantissa bits 3-0 of the inverted byte.
MuLawOf(x) ==
  LET sign == InvBit(x, 7)
      exponent == 4 * InvBit(x, 6) + 2 * InvBit(x, 5) + InvBit(x, 4)
      mantissa == 8 * InvBit(x, 3) + 4 * InvBit(x, 2) + 2 * InvBit(x, 1)
                  + InvBit(x, 0)
      magnitude == IF exponent = 0 THEN (mantissa * 2) + 132
                   ELSE ((mantissa * 2) + 132) * TwoTo(exponent - 1)
  IN IF sign = 1 THEN 0 - magnitude ELSE magnitude

\* C12: decode_mulaw returns one sample per byte, sample i being what byte i
\* alone decodes to; the empty input gives the empty output; a second call
\* on the same bytes gives the same result; no service state is written.
C12_DecodeLengthOrder ==
  dec.calls >= 1 =>
    /\ Len(dec.decoded) = Len(dec.encoded)
    /\ \A i \in 1..Len(dec.encoded) :
         dec.decoded[i] = decode_mulaw(<<dec.encoded[i]>>)[1]
    /\ dec.encoded = <<>> => dec.decoded = <<>>
    /\ dec.calls = 2 => dec.decoded = dec.first
    /\ audio_buffers = <<>> /\ active_sessions = <<>>
    /\ feature_history = <<>> /\ scalers = <<>> /\ models = <<>>

\* C12 witness: a sequence of different bytes has been decoded twice.
C12_Witness ==
  /\ dec.calls = 2
  /\ Len(dec.encoded) >= 2
  /\ dec.encoded[1] # dec.encoded[2]
  /\ dec.decoded[1] # dec.decoded[2]

\* C18: every byte decodes to the value of the bit-level rule (invert, sign
\* bit 7, exponent bits 6-4, mantissa bits 3-0, bias 0x84, shift by
\* exponent - 1, negate on sign) and its magnitude is at most 32768.
C18_DecodeByteRule ==
  dec.calls >= 1 =>
    \A i \in 1..Len(dec.decoded) :
      /\ dec.decoded[i] = MuLawOf(dec.encoded[i])
      /\ dec.decoded[i] <= 32768
      /\ 0 - dec.decoded[i] <= 32768

\* C18 witness: byte 0x00 (sign set, exponent 7, mantissa 15) has been
\* decoded to the largest magnitude, -10368.
C18_Witness ==
  dec.calls >= 1 /\ dec.encoded = <<0>> /\ dec.decoded = <<0 - 10368>>

\* C13: for a session id, nothing is sent while fewer than C samples have
\* been accepted; at exactly C one window has completed and leads to one
\* event; the k-th window below min_samples is sent as "warming_up" with
\* risk 0.0 and n = k; the min_samples-th window, its model call not
\* faulting, is sent as "ok" with n = min_samples and a risk in [0, 1].
\* (min_samples is within max_history in the source, 10 against 100.)
C13_EndToEnd ==
  /\ \A s \in Sids :
       /\ accepted[s] < buffer_size =>
            (ready_count[s] = 0 /\ EventsFor(s) = 0 /\ InFlight(s) = 0)
       /\ accepted[s] = buffer_size =>
            (ready_count[s] = 1 /\ EventsFor(s) + InFlight(s) = 1)
  /\ \A c \in Conns : pc[c] = "send" =>
       LET k == Len(statuses[loc[c].sid])
           e == Pending(c)
       IN /\ k = EventsFor(loc[c].sid) + 1
          /\ (k < min_samples /\ k <= max_history) =>
               (e.status = "warming_up" /\ e.risk = 0 /\ e.n = k)
          /\ (k = min_samples /\ k <= max_history /\ loc[c].fault = "none") =>
               (e.status = "ok" /\ e.n = k /\ e.risk \in 0..10)

\* C13 witness: the min_samples-th window of a session is about to be sent
\* as "ok".
C13_Witness ==
  \E c \in Conns :
    /\ pc[c] = "send"
    /\ Len(statuses[loc[c].sid]) = min_samples
    /\ Pending(c).status = "ok"
    /\ Pending(c).n = min_samples

\* C14 (as claimed): every map turned into a history vector has 38 entries
\* and the same feature at each position, whichever path built it.
C14_SameOrdering ==
  \A c \in Conns : pc[c] \in {"score", "clear", "send"} =>
    /\ Len(KeysOf(loc[c].features)) = 38
    /\ KeysOf(loc[c].features) = ExtractOrder

\* C15: a session's frame_count never decreases and is never reset: it is
\* the number of samples accepted for the id since the session was created;
\* clearing the buffer after a window empties the buffer and sets the
\* buffer's own frame_count to 0, leaving the session's counter as it was.
C15_SessionCounter ==
  [][/\ \A s \in DOMAIN active_sessions :
          /\ s \in DOMAIN active_sessions'
          /\ active_sessions'[s].frame_count >= active_sessions[s].frame_count
     /\ \A s \in DOMAIN active_sessions' :
          active_sessions'[s].frame_count = accepted'[s]
     /\ \A c \in Conns :
          (pc[c] = "clear" /\ pc'[c] = "send") =>
            LET s == loc[c].sid
            IN /\ audio_buffers'[s].buffer = <<>>
               /\ audio_buffers'[s].frame_count = 0
               /\ audio_buffers[s].frame_count >= buffer_size
               /\ active_sessions'[s].frame_count
                    = active_sessions[s].frame_count
               /\ active_sessions'[s].frame_count >= buffer_size]_vars

\* C15 witness: after a window was cleared and a further chunk accepted, the
\* buffer's counter has restarted while the session's counter has kept on.
C15_Witness ==
  \E s \in DOMAIN active_sessions :
    /\ ready_count[s] >= 1
    /\ audio_buffers[s].frame_count = 1
    /\ active_sessions[s].frame_count > buffer_size

\* C16: every window handed to the feature backend has exactly C samples,
\* which are consecutive samples of the session's stream in arrival order,
\* and starts after the last sample of the session's previous window.
C16_WindowContiguous ==
  [][\A c \in Conns :
       (pc[c] = "extract" /\ pc'[c] = "score") =>
         LET w == loc'[c].segment
             s == loc[c].sid
         IN /\ Len(w) = buffer_size
            /\ \A i \in 1..Len(w) : w[i][1] = w[1][1] + (i - 1)
            /\ w[1][1] >= 1
            /\ w[Len(w)][1] <= accepted[s]
            /\ w[1][1] > win_end[s]]_vars

\* C16 witness: the second window of a session has been handed to the
\* feature backend, after chunks that did not end on a window boundary.
C16_Witness ==
  \E c \in Conns :
    /\ pc[c] = "score"
    /\ ready_count[loc[c].sid] = 2
    /\ accepted[loc[c].sid] > 2 * buffer_size
    /\ loc[c].segment[1][1] > buffer_size

\* C17 (as claimed): a buffer never holds more than C samples, is empty
\* once its window has been cleared, and every sample accepted since the
\* session's previous window is still in the buffer (none was evicted).
C17_NoEviction ==
  \A s \in DOMAIN audio_buffers :
    /\ Len(audio_buffers[s].buffer) <= buffer_size
    /\ \A c \in Conns :
         (pc[c] = "send" /\ loc[c].sid = s) => audio_buffers[s].buffer = <<>>
    /\ (~\E c \in Conns : pc[c] \in {"score", "clear"} /\ loc[c].sid = s) =>
         Len(audio_buffers[s].buffer) = accepted[s] - win_end[s]

\* C19: the window's vector is in the history before the model is called,
\* whatever the call's outcome: after the update the history ends with this
\* window's vector and has min(k, M) entries for the session's k-th window;
\* the n of the session's k-th event is min(k, M); a history never shrinks.
C19_AppendBeforeModel ==
  [][/\ \A s \in DOMAIN feature_history :
          /\ s \in DOMAIN feature_history'
          /\ Len(feature_history'[s]) >= Len(feature_history[s])
     /\ \A c \in Conns :
          /\ (pc[c] = "score" /\ pc'[c] = "clear") =>
               LET s == loc[c].sid
                   h == HistoryOf(feature_history', s)
               IN /\ Len(h) = Min2(Len(statuses'[s]), max_history)
                  /\ Len(h) >= 1
                  /\ h[Len(h)] = feature_vector(loc[c].features)
          /\ (pc[c] = "send" /\ pc'[c] = "recv") =>
               Pending(c).n = Min2(EventsFor(loc[c].sid) + 1, max_history)]_vars

\* C19 witness: an "error" event is about to be sent whose n counts the
\* faulted window, the history ending with that window's vector.
C19_Witness ==
  \E c \in Conns :
    /\ pc[c] = "send"
    /\ Pending(c).status = "error"
    /\ Pending(c).n = EventsFor(loc[c].sid) + 1
    /\ feature_history[loc[c].sid][Pending(c).n]
         = feature_vector(loc[c].features)

====
